---- MODULE Spec2Model ----
(***************************************************************************)
(* Google-calendar assistant: the five-node LangGraph pipeline             *)
(* (langgraph_flow.py), the MCP client wrapper (mcp_client.py) and the     *)
(* calendar tools of the MCP server (mcp_server.py).                       *)
(*                                                                         *)
(* Nine specifications share the variables below:                          *)
(*   SpecConflict  check_conflict applied to bounded inputs                *)
(*   SpecParse     _safe_json_loads applied to bounded texts               *)
(*   SpecSerialize serialize_tool_result applied to bounded values         *)
(*   SpecQuery     one call of the endpoint assistant_query                *)
(*   SpecRace      two mcp_server processes running create_event           *)
(*   SpecServer    one mcp_server process serving calls one at a time      *)
(*   SpecClient    one MCPClient object driven by concurrent callers       *)
(*   Spec          one request through the compiled graph                  *)
(*   SpecLive      Spec with every enabled step eventually taken           *)
(***************************************************************************)
EXTENDS Integers, Sequences, FiniteSets, TLC

\* ------------------------------------------------------------------ bounds
\* wall-clock readings run over 0..MaxTime
MaxTime == 3
\* UTC offsets of ISO strings run over 0..MaxOff
MaxOff == 1
\* longest "items" list handed to check_conflict in SpecConflict, and the
\* number of events a calendar holds in SpecServer
MaxItems == 2

\* nesting depth of the values handed to serialize_tool_result
MaxDepth == 2

\* mcp_server processes (one per opened session) in SpecRace
NumProcs == 2
\* tasks holding a reference to the one MCPClient object of SpecClient
NumTasks == 2
\* call_tool invocations per task
MaxCalls == 2

Clock == 0..MaxTime
Offsets == {0, MaxOff}
Procs == 1..NumProcs
Tasks == 1..NumTasks

\* ------------------------------------------------- ISO 8601 strings, events
\* An ISO string is kept as what it spells: a wall-clock reading and, for a
\* timed value, a UTC offset.  kind "absent" is a missing key (Python None).
Absent == [kind |-> "absent", local |-> 0, off |-> 0]
DateTimeStr(l, o) == [kind |-> "dateTime", local |-> l, off |-> o]
DateStr(d) == [kind |-> "date", local |-> d, off |-> 0]

\* the {"dateTime": .., "date": ..} mapping of an event's start or end
TimedField(l, o) == [dateTime |-> DateTimeStr(l, o), date |-> Absent]
AllDayField(d) == [dateTime |-> Absent, date |-> DateStr(d)]
EmptyField == [dateTime |-> Absent, date |-> Absent]

NoEvent == [id |-> 0, start |-> EmptyField, end |-> EmptyField]

\* dateutil.parser.isoparse: a string with an offset gives an aware datetime
\* (an absolute instant), a date-only string gives a naive midnight, None raises.
isoparse(x) ==
    CASE x.kind = "dateTime" -> [ok |-> TRUE, aware |-> TRUE, t |-> x.local - x.off]
      [] x.kind = "date" -> [ok |-> TRUE, aware |-> FALSE, t |-> x.local]
      [] OTHER -> [ok |-> FALSE, aware |-> FALSE, t |-> 0]

\* ev["start"].get("dateTime", ev["start"].get("date"))
GetDateTimeOrDate(f) == IF f.dateTime /= Absent THEN f.dateTime ELSE f.date

\* datetime ordering: comparing an aware with a naive value raises TypeError
Comparable(a, b) == a.aware = b.aware

\* The overlap test with the boundaries included (< and > for <= and >=).
OverlapWrongBoundary(s, e, ev_s, ev_e) ==
    IF ~Comparable(e, ev_s) THEN "raise"
    ELSE IF e.t < ev_s.t THEN "next"
    ELSE IF ~Comparable(s, ev_e) THEN "raise"
    ELSE IF s.t > ev_e.t THEN "next"
    ELSE "overlap"

\* not (e <= ev_s or s >= ev_e), evaluated left to right:
\* "raise", "overlap" or "next" (go on with the next event)
Overlap(s, e, ev_s, ev_e) ==
    IF ~Comparable(e, ev_s) THEN "raise"
    ELSE IF e.t <= ev_s.t THEN "next"
    ELSE IF ~Comparable(s, ev_e) THEN "raise"
    ELSE IF s.t >= ev_e.t THEN "next"
    ELSE "overlap"

CheckEvent(s, e, ev) ==
    LET ev_s == isoparse(GetDateTimeOrDate(ev.start))
        ev_e == isoparse(GetDateTimeOrDate(ev.end))
    IN IF ~ev_s.ok \/ ~ev_e.ok THEN "raise" ELSE Overlap(s, e, ev_s, ev_e)

\* the loop without its early return: the last overlapping event wins
RECURSIVE ScanLast(_, _, _, _, _)
ScanLast(s, e, items, i, found) ==
    IF i > Len(items)
    THEN [raised |-> FALSE, conflict |-> found /= NoEvent, ev |-> found]
    ELSE LET r == CheckEvent(s, e, items[i])
         IN IF r = "raise" THEN [raised |-> TRUE, conflict |-> FALSE, ev |-> NoEvent]
            ELSE ScanLast(s, e, items, i + 1, IF r = "overlap" THEN items[i] ELSE found)

\* the for loop of check_conflict from index i on
RECURSIVE Scan(_, _, _, _)
Scan(s, e, items, i) ==
    IF i > Len(items) THEN [raised |-> FALSE, conflict |-> FALSE, ev |-> NoEvent]
    ELSE LET r == CheckEvent(s, e, items[i])
         IN IF r = "raise" THEN [raised |-> TRUE, conflict |-> FALSE, ev |-> NoEvent]
            ELSE IF r = "overlap" THEN [raised |-> FALSE, conflict |-> TRUE, ev |-> items[i]]
            ELSE Scan(s, e, items, i + 1)

check_conflict_last(start_iso, end_iso, items) ==
    LET s == isoparse(start_iso)
        e == isoparse(end_iso)
    IN IF ~s.ok \/ ~e.ok THEN [raised |-> TRUE, conflict |-> FALSE, ev |-> NoEvent]
       ELSE ScanLast(s, e, items, 1, NoEvent)

check_conflict(start_iso, end_iso, items) ==
    LET s == isoparse(start_iso)
        e == isoparse(end_iso)
    IN IF ~s.ok \/ ~e.ok THEN [raised |-> TRUE, conflict |-> FALSE, ev |-> NoEvent]
       ELSE Scan(s, e, items, 1)

\* ---------------------------------------------------------------- variables
VARIABLES
    \* check_conflict under test (SpecConflict)
    cc_start, cc_end, cc_items, cc_result, cc_done,
    \* the remote calendar and the mcp_server processes
    calendar,   \* the events the calendar API holds
    next_id,    \* the id the API gives the next inserted event
    srv,        \* per process: the tool call it is running
    \* one MCPClient object (mcp_client.py) and the tasks using it
    _session,       \* self._session: "None" or "ClientSession"
    _exit_stack,    \* self._exit_stack: the contexts entered, oldest first
    channel,        \* the stdio transport (the subprocess): none, open, closed
    closes,         \* how many times the transport has been closed
    initialized,    \* the initialize handshake has completed on the session
    handshakes,     \* initialize handshakes performed
    acquired,       \* connect() has been invoked on the object
    cleaned,        \* cleanup() has closed an opened transport
    remote_calls,   \* tool requests that reached the remote executor
    tpc,            \* per task: where it is suspended
    scoped,         \* per task: it is inside "async with MCPClient()"
    with_done,      \* per task: how its async-with block ended
    outstanding,    \* per task: requests sent and not yet answered
    calls,          \* per task: call_tool invocations so far
    \* one request through the compiled graph (langgraph_flow.py)
    pc,         \* the node that runs next (or is running), "END" or "raised"
    state,      \* the CalendarState mapping threaded through the nodes
    history,    \* the nodes that have finished, in order
    intent_json,    \* intent_node's local: what the intent capability answered
    \* _safe_json_loads under test (SpecParse)
    sjl_s, sjl_out, sjl_done,
    \* serialize_tool_result under test (SpecSerialize)
    ser_result, ser_out, ser_done,
    \* one call of the HTTP endpoint assistant_query (SpecQuery)
    qpc,        \* where run_with_gemini stands
    reply       \* what the endpoint handed back to its caller

fvars == <<cc_start, cc_end, cc_items, cc_result, cc_done>>
svars == <<calendar, next_id, srv>>
cvars == <<_session, _exit_stack, channel, closes, initialized, handshakes, acquired,
           cleaned, remote_calls, tpc, scoped, with_done, outstanding, calls>>
pvars == <<pc, state, history>>
jvars == <<sjl_s, sjl_out, sjl_done>>
nvars == <<ser_result, ser_out, ser_done>>
qvars == <<qpc, reply>>
xvars == <<jvars, nvars, qvars, intent_json>>
vars == <<fvars, svars, cvars, pvars, xvars>>

\* ------------------------------------------------ inputs: windows and events
\* candidate windows: timed strings with an offset (create_event's start_iso,
\* end_iso are "ISO 8601, with timezone")
CandidateWindows ==
    {<<DateTimeStr(a, o), DateTimeStr(b, o)>> : a \in Clock, b \in Clock, o \in Offsets}

\* windows with start before end, as a create request proposes them
ProposedWindows == {w \in CandidateWindows : isoparse(w[1]).t < isoparse(w[2]).t}

\* existing events as the calendar API returns them: timed (dateTime with an
\* offset), all-day (date only), or with neither key
TimedEvents ==
    {[id |-> 1, start |-> [dateTime |-> w[1], date |-> Absent],
      end |-> [dateTime |-> w[2], date |-> Absent]] : w \in ProposedWindows}
AllDayEvents == {[id |-> 1, start |-> AllDayField(0), end |-> AllDayField(1)]}
MalformedEvents == {[id |-> 1, start |-> EmptyField, end |-> EmptyField]}
ProbeEvents == TimedEvents \cup AllDayEvents \cup MalformedEvents

\* lists of at most MaxItems events, ids numbered by position
RECURSIVE ItemLists(_)
ItemLists(n) ==
    IF n = 0 THEN {<<>>}
    ELSE LET shorter == ItemLists(n - 1)
         IN shorter \cup
            {Append(l, [e EXCEPT !.id = Len(l) + 1]) :
                l \in {x \in shorter : Len(x) = n - 1}, e \in ProbeEvents}

NoResult == [raised |-> FALSE, conflict |-> FALSE, ev |-> NoEvent]

\* ------------------------------------------------- mcp_server.py: the tools
\* effective start of a stored event, the API's sort key for orderBy=startTime
StartKey(ev) == isoparse(GetDateTimeOrDate(ev.start)).t
EndKey(ev) == isoparse(GetDateTimeOrDate(ev.end)).t

\* a set of events as the sequence ordered by start time (ties by id)
RECURSIVE OrderByStartTime(_)
OrderByStartTime(evs) ==
    IF evs = {} THEN <<>>
    ELSE LET first == CHOOSE x \in evs : \A y \in evs :
                          \/ StartKey(x) < StartKey(y)
                          \/ StartKey(x) = StartKey(y) /\ x.id <= y.id
         IN <<first>> \o OrderByStartTime(evs \ {first})

\* list_google_events without the probe window: every event is returned
list_google_events_unfiltered(cal, time_min, time_max) == OrderByStartTime(cal)

\* the listing with timeMin read as a lower bound on an event's start
list_google_events_starting_in(cal, time_min, time_max) ==
    OrderByStartTime(
        {ev \in cal :
            /\ time_min /= Absent => StartKey(ev) >= isoparse(time_min).t
            /\ time_max /= Absent => StartKey(ev) < isoparse(time_max).t})

\* GET .../events?singleEvents=true&orderBy=startTime&timeMin=..&timeMax=..:
\* timeMin is an exclusive lower bound on an event's end, timeMax an exclusive
\* upper bound on its start; a parameter that is None is not sent.
list_google_events(cal, time_min, time_max) ==
    OrderByStartTime(
        {ev \in cal :
            /\ time_min /= Absent => EndKey(ev) > isoparse(time_min).t
            /\ time_max /= Absent => StartKey(ev) < isoparse(time_max).t})

NoArgs == [start_iso |-> Absent, end_iso |-> Absent, event_id |-> 0, timezone |-> FALSE]
CreateArgs(w) == [start_iso |-> w[1], end_iso |-> w[2], event_id |-> 0, timezone |-> TRUE]
\* a process: its position in the tool it runs, the tool's arguments, the
\* listing it fetched ("events"), the writes it sent and its result
Idle == [pc |-> "idle", tool |-> "none", args |-> NoArgs, events |-> <<>>, posts |-> 0,
         result |-> [status |-> "none", ev |-> NoEvent]]
Called(tool, args) == [Idle EXCEPT !.pc = "called", !.tool = tool, !.args = args]
Done(cur, status, ev) ==
    [cur EXCEPT !.pc = "done", !.result = [status |-> status, ev |-> ev]]

\* the verdict create_event acts on, with the check left out
create_probe_unchecked(cal, args) == NoResult

\* create_event lines 82-83: fetch the probe window, then check_conflict
create_probe(cal, args) ==
    check_conflict(args.start_iso, args.end_iso,
                   list_google_events(cal, args.start_iso, args.end_iso))

\* create_event up to its conflict verdict (lines 79-85): the token, the
\* listing (raise_for_status) and check_conflict may each raise, which FastMCP
\* turns into an error result.
CreateEventProbe(p) ==
    /\ srv[p].pc = "called" /\ srv[p].tool = "create_event"
    /\ \E token_ok \in BOOLEAN, list_ok \in BOOLEAN :
         LET r == create_probe(calendar, srv[p].args)
         IN srv' = [srv EXCEPT ![p] =
                IF srv[p].args.start_iso = Absent \/ srv[p].args.end_iso = Absent
                    \/ ~token_ok \/ ~list_ok \/ r.raised
                THEN Done(@, "error", NoEvent)
                ELSE LET fetched == [srv[p] EXCEPT !.events =
                             list_google_events(calendar, srv[p].args.start_iso,
                                                srv[p].args.end_iso)]
                     IN IF r.conflict THEN Done(fetched, "conflict", r.ev)
                        ELSE [fetched EXCEPT !.pc = "probed"]]
    /\ UNCHANGED <<calendar, next_id>>

\* create_event lines 87-114: POST the event; the response is not checked
\* (raise_for_status is commented out), so the result is "created" whether or
\* not the API accepted the insert.
CreateEventPost(p) ==
    /\ srv[p].pc = "probed" /\ srv[p].tool = "create_event"
    /\ \E accepted \in BOOLEAN :
         LET ev == [id |-> next_id,
                    start |-> [dateTime |-> srv[p].args.start_iso, date |-> Absent],
                    end |-> [dateTime |-> srv[p].args.end_iso, date |-> Absent]]
         IN /\ calendar' = IF accepted THEN calendar \cup {ev} ELSE calendar
            /\ next_id' = IF accepted THEN next_id + 1 ELSE next_id
            /\ srv' = [srv EXCEPT ![p] =
                   Done([@ EXCEPT !.posts = @ + 1], "created",
                        IF accepted THEN ev ELSE NoEvent)]

\* list_events lines 63-64: the token, then the listing
ListEvents(p) ==
    /\ srv[p].pc = "called" /\ srv[p].tool = "list_events"
    /\ \E ok \in BOOLEAN :
         srv' = [srv EXCEPT ![p] =
             IF ok THEN Done([@ EXCEPT !.events =
                                 list_google_events(calendar, srv[p].args.start_iso,
                                                    srv[p].args.end_iso)],
                             "listed", NoEvent)
             ELSE Done(@, "error", NoEvent)]
    /\ UNCHANGED <<calendar, next_id>>

\* update_event lines 128-142: fetch the event, and when both times are given
\* probe the new window; a conflict is reported unless the first overlapping
\* event is the one being updated
UpdateEventProbe(p) ==
    /\ srv[p].pc = "called" /\ srv[p].tool = "update_event"
    /\ \E token_ok \in BOOLEAN, list_ok \in BOOLEAN :
         LET a == srv[p].args
             timed == a.start_iso /= Absent /\ a.end_iso /= Absent
             r == IF timed THEN create_probe(calendar, a) ELSE NoResult
         IN srv' = [srv EXCEPT ![p] =
                IF a.event_id = 0 \/ ~token_ok \/ (timed /\ (~list_ok \/ r.raised))
                THEN Done(@, "error", NoEvent)
                ELSE IF r.conflict /\ r.ev.id /= a.event_id THEN Done(@, "conflict", r.ev)
                ELSE [@ EXCEPT !.pc = "probed"]]
    /\ UNCHANGED <<calendar, next_id>>

\* update_event lines 144-160: PUT the changed event; raise_for_status turns a
\* refusal (no such event among them) into an error result
UpdateEventPut(p) ==
    /\ srv[p].pc = "probed" /\ srv[p].tool = "update_event"
    /\ \E accepted \in BOOLEAN :
         LET a == srv[p].args
             cur == {ev \in calendar : ev.id = a.event_id}
             new(ev) == [ev EXCEPT
                 !.start = IF a.start_iso /= Absent /\ a.timezone
                           THEN [dateTime |-> a.start_iso, date |-> Absent] ELSE @,
                 !.end = IF a.end_iso /= Absent /\ a.timezone
                         THEN [dateTime |-> a.end_iso, date |-> Absent] ELSE @]
         IN IF accepted /\ cur /= {}
            THEN /\ calendar' = (calendar \ cur) \cup {new(ev) : ev \in cur}
                 /\ srv' = [srv EXCEPT ![p] =
                        Done([@ EXCEPT !.posts = @ + 1], "updated", NoEvent)]
            ELSE /\ calendar' = calendar
                 /\ srv' = [srv EXCEPT ![p] =
                        Done([@ EXCEPT !.posts = @ + 1], "error", NoEvent)]
    /\ UNCHANGED next_id

\* delete_event lines 170-181: "deleted" on a 204 answer, else "failed"
DeleteEvent(p) ==
    /\ srv[p].pc = "called" /\ srv[p].tool = "delete_event"
    /\ \E token_ok \in BOOLEAN, accepted \in BOOLEAN :
         LET cur == {ev \in calendar : ev.id = srv[p].args.event_id}
         IN IF ~token_ok \/ srv[p].args.event_id = 0
            THEN /\ calendar' = calendar
                 /\ srv' = [srv EXCEPT ![p] = Done(@, "error", NoEvent)]
            ELSE IF accepted /\ cur /= {}
            THEN /\ calendar' = calendar \ cur
                 /\ srv' = [srv EXCEPT ![p] =
                        Done([@ EXCEPT !.posts = @ + 1], "deleted", NoEvent)]
            ELSE /\ calendar' = calendar
                 /\ srv' = [srv EXCEPT ![p] =
                        Done([@ EXCEPT !.posts = @ + 1], "failed", NoEvent)]
    /\ UNCHANGED next_id

ToolNames == {"list_events", "create_event", "update_event", "delete_event"}

\* a request naming no registered tool is answered with an error result
UnknownTool(p) ==
    /\ srv[p].pc = "called" /\ srv[p].tool \notin ToolNames
    /\ srv' = [srv EXCEPT ![p] = Done(@, "error", NoEvent)]
    /\ UNCHANGED <<calendar, next_id>>

\* ------------------------------------------------ mcp_client.py: MCPClient
\* MCPClient.__init__
InitClientVars ==
    /\ _session = "None"
    /\ _exit_stack = <<>>
    /\ channel = "none" /\ closes = 0
    /\ initialized = FALSE /\ handshakes = 0
    /\ acquired = FALSE /\ cleaned = FALSE
    /\ remote_calls = 0
    /\ tpc = [t \in Tasks |-> "idle"]
    /\ scoped = [t \in Tasks |-> FALSE]
    /\ with_done = [t \in Tasks |-> "no"]
    /\ outstanding = [t \in Tasks |-> 0]
    /\ calls = [t \in Tasks |-> 0]

\* where a task goes when an awaited step raises: out of __aenter__ (no
\* __aexit__ runs for a block whose __aenter__ raised) or out of a bare call
ConnectRaised(t) ==
    /\ tpc' = [tpc EXCEPT ![t] = "idle"]
    /\ scoped' = [scoped EXCEPT ![t] = FALSE]
    /\ with_done' = [with_done EXCEPT ![t] = IF scoped[t] THEN "aenter_raised" ELSE @]

\* "async with MCPClient() as client" reaching __aenter__ (sc), or a bare
\* "await client.connect()": connect() starts
Acquire(t, sc) ==
    /\ tpc[t] = "idle" /\ ~acquired
    /\ acquired' = TRUE
    /\ tpc' = [tpc EXCEPT ![t] = "connect_stdio"]
    /\ scoped' = [scoped EXCEPT ![t] = sc]
    /\ with_done' = [with_done EXCEPT ![t] = IF sc THEN "in" ELSE @]
    /\ UNCHANGED <<_session, _exit_stack, channel, closes, initialized, handshakes,
                   cleaned, remote_calls, outstanding, calls>>

\* connect lines 48-50: enter stdio_client on the exit stack (spawns the server)
ConnectStdio(t) ==
    /\ tpc[t] = "connect_stdio"
    /\ \E ok \in BOOLEAN :
         IF ok
         THEN /\ channel' = "open"
              /\ _exit_stack' = Append(_exit_stack, "stdio_client")
              /\ tpc' = [tpc EXCEPT ![t] = "connect_session"]
              /\ UNCHANGED <<scoped, with_done>>
         ELSE /\ ConnectRaised(t)
              /\ UNCHANGED <<channel, _exit_stack>>
    /\ UNCHANGED <<_session, closes, initialized, handshakes, acquired, cleaned,
                   remote_calls, outstanding, calls>>

\* connect lines 52-54: enter ClientSession on the exit stack, assign _session
ConnectSession(t) ==
    /\ tpc[t] = "connect_session"
    /\ \E ok \in BOOLEAN :
         IF ok
         THEN /\ _session' = "ClientSession"
              /\ _exit_stack' = Append(_exit_stack, "ClientSession")
              /\ tpc' = [tpc EXCEPT ![t] = "initialize"]
              /\ UNCHANGED <<scoped, with_done>>
         ELSE /\ ConnectRaised(t)
              /\ UNCHANGED <<_session, _exit_stack>>
    /\ UNCHANGED <<channel, closes, initialized, handshakes, acquired, cleaned,
                   remote_calls, outstanding, calls>>

\* connect line 55: await self._session.initialize(), the handshake
ConnectInitialize(t) ==
    /\ tpc[t] = "initialize"
    /\ \E ok \in BOOLEAN :
         IF ok /\ channel = "open"
         THEN /\ initialized' = TRUE
              /\ handshakes' = handshakes + 1
              /\ tpc' = [tpc EXCEPT ![t] = IF scoped[t] THEN "body" ELSE "idle"]
              /\ UNCHANGED <<scoped, with_done>>
         ELSE /\ ConnectRaised(t)
              /\ UNCHANGED <<initialized, handshakes>>
    /\ UNCHANGED <<_session, _exit_stack, channel, closes, acquired, cleaned,
                   remote_calls, outstanding, calls>>

\* __aexit__ that releases only when the block ended without an exception
aexit_skip_on_error(exc) == IF exc THEN "idle" ELSE "cleanup"

\* __aexit__ (lines 99-100): cleanup() runs however the block ended, and the
\* exception, if any, propagates afterwards
aexit(exc) == "cleanup"

\* leaving the block of "async with" of task t, with or without an exception
LeaveBlock(t, exc) ==
    /\ tpc' = [tpc EXCEPT ![t] = aexit(exc)]
    /\ with_done' = [with_done EXCEPT ![t] = IF exc THEN "exited_exc" ELSE "exited_ok"]
    /\ scoped' = [scoped EXCEPT ![t] = aexit(exc) = "cleanup"]

\* call_tool line 71: "return await self.session().call_tool(..)": the caller
\* is suspended until the response arrives
call_tool_await(sc) == "call"

\* session() lines 57-62: the guard every operation goes through
session_ready == _session /= "None"

\* call_tool (list_tools, ... alike) invoked by task t, from a block or bare:
\* session() raises ConnectionError, or the request goes out on the channel;
\* on a closed channel the write raises.
CallTool(t) ==
    /\ tpc[t] \in {"idle", "body"}
    /\ calls[t] < MaxCalls
    /\ calls' = [calls EXCEPT ![t] = @ + 1]
    /\ IF session_ready /\ channel = "open"
       THEN /\ remote_calls' = remote_calls + 1
            /\ outstanding' = [outstanding EXCEPT ![t] = @ + 1]
            /\ tpc' = [tpc EXCEPT ![t] = call_tool_await(scoped[t])]
            /\ UNCHANGED <<scoped, with_done>>
       ELSE /\ UNCHANGED <<remote_calls, outstanding>>
            /\ IF scoped[t] THEN LeaveBlock(t, TRUE)
               ELSE UNCHANGED <<tpc, scoped, with_done>>
    /\ UNCHANGED <<_session, _exit_stack, channel, closes, initialized, handshakes,
                   acquired, cleaned>>

\* the response to task t's request arrives, or the wait raises
CallReturn(t) ==
    /\ tpc[t] = "call"
    /\ outstanding' = [outstanding EXCEPT ![t] = @ - 1]
    /\ \E ok \in BOOLEAN :
         IF ok /\ channel = "open"
         THEN /\ tpc' = [tpc EXCEPT ![t] = IF scoped[t] THEN "body" ELSE "idle"]
              /\ UNCHANGED <<scoped, with_done>>
         ELSE IF scoped[t] THEN LeaveBlock(t, TRUE)
              ELSE /\ tpc' = [tpc EXCEPT ![t] = "idle"]
                   /\ UNCHANGED <<scoped, with_done>>
    /\ UNCHANGED <<_session, _exit_stack, channel, closes, initialized, handshakes,
                   acquired, cleaned, remote_calls, calls>>

\* the block of "async with" ends, normally or because a step in it raised
BlockEnd(t) ==
    /\ tpc[t] = "body"
    /\ \E exc \in BOOLEAN : LeaveBlock(t, exc)
    /\ UNCHANGED <<_session, _exit_stack, channel, closes, initialized, handshakes,
                   acquired, cleaned, remote_calls, outstanding, calls>>

\* a bare "await client.cleanup()"
CleanupCall(t) ==
    /\ tpc[t] = "idle" /\ acquired
    /\ tpc' = [tpc EXCEPT ![t] = "cleanup"]
    /\ UNCHANGED <<_session, _exit_stack, channel, closes, initialized, handshakes,
                   acquired, cleaned, remote_calls, scoped, with_done, outstanding, calls>>

\* AsyncExitStack.aclose(): every context on the stack is exited once and
\* popped; the number of transports it closes
aclose_closes(stack) == Cardinality({i \in 1..Len(stack) : stack[i] = "stdio_client"})

\* cleanup lines 91-93: aclose() exits every entered context (also when one of
\* the exits raises), then _session is reset unless aclose() raised
Cleanup(t) ==
    /\ tpc[t] = "cleanup"
    /\ \E raises \in BOOLEAN :
         /\ raises => _exit_stack /= <<>>
         /\ _session' = IF raises THEN _session ELSE "None"
    /\ closes' = closes + aclose_closes(_exit_stack)
    /\ channel' = IF aclose_closes(_exit_stack) > 0 THEN "closed" ELSE channel
    /\ _exit_stack' = <<>>
    /\ cleaned' = (cleaned \/ aclose_closes(_exit_stack) > 0)
    /\ tpc' = [tpc EXCEPT ![t] = "idle"]
    /\ scoped' = [scoped EXCEPT ![t] = FALSE]
    /\ UNCHANGED <<initialized, handshakes, acquired, remote_calls, with_done,
                   outstanding, calls>>

\* ------------------------- utils_serialization.py: serialize_tool_result
\* Python values as serialize_tool_result tells them apart, by the first of
\* its tests that they pass: None; a primitive (dict, str, int, float, bool
\* are returned as they are; "prim" stands for the last four); a list; an
\* object with to_dict (kids[1] is what to_dict() returns); an object with
\* __dict__ (kids are its attribute values); an object with text (kids[1] is
\* the attribute); an object with _pb; any other object.  A mapping's and an
\* object's kids are its values in key order.
PyNone == [kind |-> "none", kids |-> <<>>, val |-> ""]
Str(v) == [kind |-> "prim", kids |-> <<>>, val |-> v]
Dict(kids) == [kind |-> "dict", kids |-> kids, val |-> ""]
List(kids) == [kind |-> "list", kids |-> kids, val |-> ""]
ToDict(v) == [kind |-> "to_dict", kids |-> <<v>>, val |-> ""]
Attrs(kids) == [kind |-> "attrs", kids |-> kids, val |-> ""]
Text(v) == [kind |-> "text", kids |-> <<v>>, val |-> ""]
Pb == [kind |-> "pb", kids |-> <<>>, val |-> ""]
Opaque == [kind |-> "opaque", kids |-> <<>>, val |-> ""]

\* the list branch handing the elements back as they are
list_items_raw(f, kids) == kids

\* line 15: [serialize_tool_result(r) for r in result]
list_items(f, kids) == [i \in 1..Len(kids) |-> f[kids[i]]]

\* the values found inside a value, the value included
RECURSIVE Parts(_)
Parts(v) == {v} \cup UNION {Parts(v.kids[i]) : i \in 1..Len(v.kids)}

\* lines 4-33, as the function over the parts of its argument that the
\* recursion of lines 15 and 23 computes
serialize_tool_result(result) ==
    LET f[v \in Parts(result)] ==
            CASE v.kind \in {"none", "prim", "dict"} -> v
              [] v.kind = "list" -> List(list_items(f, v.kids))
              [] v.kind = "to_dict" -> v.kids[1]
              [] v.kind = "attrs" -> Dict([i \in 1..Len(v.kids) |-> f[v.kids[i]]])
              [] v.kind = "text" -> v.kids[1]
              [] v.kind = "pb" -> Str("repr")
              [] OTHER -> Str("repr")
    IN f[result]

\* ------------------------------------------- langgraph_flow.py: the pipeline
\* A capability's text output, as the tokens json.loads tells apart: braces,
\* "m" (the members of one object, whose content is obj), "x" (prose), "n" (a
\* JSON value that is no object and is truthy: a number, a list, a string) and
\* "z" (one that is falsy: null, 0, [], "").
NoKeys == [intent |-> "absent", valid |-> "absent", errors |-> "absent", args |-> NoArgs]
DictValue(d) == [type |-> "dict", d |-> d]
NoneValue == [type |-> "none", d |-> NoKeys]
\* no capability output
NoText == [toks |-> <<>>, obj |-> NoKeys]

\* json.loads on a token sequence: [ok, value]
json_loads(toks, obj) ==
    CASE toks = <<"{", "m", "}">> -> [ok |-> TRUE, value |-> DictValue(obj)]
      [] toks = <<"{", "}">> -> [ok |-> TRUE, value |-> DictValue(NoKeys)]
      [] toks = <<"n">> -> [ok |-> TRUE, value |-> [type |-> "truthy", d |-> NoKeys]]
      [] toks = <<"z">> -> [ok |-> TRUE, value |-> [type |-> "falsy", d |-> NoKeys]]
      [] OTHER -> [ok |-> FALSE, value |-> NoneValue]

\* find returning the last occurrence instead of the first
FindLast(toks, c) ==
    IF \E i \in 1..Len(toks) : toks[i] = c
    THEN CHOOSE i \in 1..Len(toks) : toks[i] = c /\ \A j \in (i + 1)..Len(toks) : toks[j] /= c
    ELSE 0

\* s.find("{") and s.rfind("}"): 0 stands for -1
Find(toks, c) ==
    IF \E i \in 1..Len(toks) : toks[i] = c
    THEN CHOOSE i \in 1..Len(toks) : toks[i] = c /\ \A j \in 1..(i - 1) : toks[j] /= c
    ELSE 0
RFind(toks, c) ==
    IF \E i \in 1..Len(toks) : toks[i] = c
    THEN CHOOSE i \in 1..Len(toks) : toks[i] = c /\ \A j \in (i + 1)..Len(toks) : toks[j] /= c
    ELSE 0

\* _safe_json_loads lines 66-85
_safe_json_loads(text) ==
    LET direct == json_loads(text.toks, text.obj)
        start == Find(text.toks, "{")
        end == RFind(text.toks, "}")
        inner == json_loads(SubSeq(text.toks, start, end), text.obj)
    IN IF direct.ok THEN direct.value
       ELSE IF start /= 0 /\ end /= 0 /\ end > start /\ inner.ok THEN inner.value
       ELSE DictValue(NoKeys)

\* the shapes a capability answers in
TextShapes ==
    { <<"{", "m", "}">>, <<"x", "{", "m", "}", "x">>, <<"{", "}">>, <<"n">>, <<"z">>,
      <<"x">>, <<"{", "m", "}", "x", "{", "m", "}">>, <<"}", "x", "{">>,
      <<"{", "x", "}">> }
Texts(objs) == {[toks |-> s, obj |-> o] : s \in TextShapes, o \in objs}

IntentNames == ToolNames \cup {"other"}
IntentObjs == {[NoKeys EXCEPT !.intent = i] : i \in IntentNames \cup {"absent"}}
DataArgs ==
    {[start_iso |-> w[1], end_iso |-> w[2], event_id |-> i, timezone |-> TRUE] :
        w \in ProposedWindows, i \in {0, 1}}
      \cup {[NoArgs EXCEPT !.event_id = i] : i \in {0, 1}}
DataObjs == {[NoKeys EXCEPT !.args = a] : a \in DataArgs}
ValidationObjs ==
    {[NoKeys EXCEPT !.valid = v, !.errors = e] :
        v \in {"true", "false", "string", "absent"}, e \in {"absent", "empty", "some"}}

NoActionResult == PyNone
\* state["message"]: None, or the text the feedback capability wrote about
\* the result it was shown
NoMessage == [text |-> "None", about |-> PyNone]
FbText(result) == [text |-> "fb_text", about |-> result]
\* the request as handed to the graph: the user's turn, every field None
InitState ==
    [messages |-> <<"user">>, intent |-> "None", data |-> NoneValue,
     validation |-> NoneValue, action_result |-> NoActionResult, message |-> NoMessage]

\* data_node writing the intent field too
data_write_intent(st, parsed) == [st EXCEPT !.data = parsed, !.intent = "None"]
\* the error branch of action_node also noting its result in messages
error_write_messages(st, result) ==
    [st EXCEPT !.action_result = result, !.messages = Append(@, "assistant")]

\* line 95: state["intent"] = parsed.get("intent")
intent_write(st, parsed) ==
    [st EXCEPT !.intent = IF parsed.d.intent = "absent" THEN "None" ELSE parsed.d.intent]
\* line 103: state["data"] = ..
data_write(st, parsed) == [st EXCEPT !.data = parsed]
\* line 110: state["validation"] = ..
validation_write(st, parsed) == [st EXCEPT !.validation = parsed]
\* line 118: state["action_result"] = {"status": "error", ..}
error_write(st, result) == [st EXCEPT !.action_result = result]
\* line 123 storing the CallToolResult's text unnormalized
action_write_raw(st, result) == [st EXCEPT !.action_result = Str("raw")]
\* line 123: state["action_result"] = serialize_tool_result(result)
action_write(st, result) == [st EXCEPT !.action_result = result]
\* line 130: state["message"] = fb_text
feedback_write(st, fb_text) == [st EXCEPT !.message = fb_text]

\* build_graph lines 145-150: the edges, with a fork that skips a node
next_node_fork(node) ==
    CASE node = "START" -> "intent"
      [] node = "intent" -> "data"
      [] node = "data" -> "validation"
      [] node = "validation" ->
            IF state.validation.d.valid = "true" THEN "action" ELSE "feedback"
      [] node = "action" -> "feedback"
      [] OTHER -> "END"

\* build_graph lines 145-150: the edges of the compiled graph
next_node(node) ==
    CASE node = "START" -> "intent"
      [] node = "intent" -> "data"
      [] node = "data" -> "validation"
      [] node = "validation" -> "action"
      [] node = "action" -> "feedback"
      [] OTHER -> "END"

\* a node has returned: the graph moves along its edge
Finish(node) ==
    /\ pc' = next_node(node)
    /\ history' = Append(history, node)
Raise ==
    /\ pc' = "raised"
    /\ UNCHANGED history

\* intent_node lines 89-96; parsed.get raises on a value that is no mapping
intent_node ==
    /\ pc = "intent"
    /\ \E answered \in BOOLEAN, text \in Texts(IntentObjs) :
         /\ intent_json' = IF answered THEN text ELSE intent_json
         /\ LET parsed == _safe_json_loads(text)
            IN IF answered /\ parsed.type = "dict"
               THEN /\ state' = intent_write(state, parsed)
                    /\ Finish("intent")
               ELSE /\ Raise /\ UNCHANGED state
    /\ UNCHANGED <<fvars, jvars, nvars, qvars, svars, cvars>>

\* data_node lines 99-104; intent_node's local intent_json is gone
data_node ==
    /\ pc = "data"
    /\ \E answered \in BOOLEAN, text \in Texts(DataObjs) :
         IF answered
         THEN /\ state' = data_write(state, _safe_json_loads(text))
              /\ Finish("data")
         ELSE /\ Raise /\ UNCHANGED state
    /\ intent_json' = NoText
    /\ UNCHANGED <<fvars, jvars, nvars, qvars, svars, cvars>>

\* validation_node lines 107-111: the validator capability sees the intent and
\* the data only
validation_node ==
    /\ pc = "validation"
    /\ \E answered \in BOOLEAN, text \in Texts(ValidationObjs) :
         IF answered
         THEN /\ state' = validation_write(state, _safe_json_loads(text))
              /\ Finish("validation")
         ELSE /\ Raise /\ UNCHANGED state
    /\ UNCHANGED <<fvars, xvars, svars, cvars>>

\* validation.get("errors"): None, [] or a list of texts
ErrorsValue(e) ==
    CASE e = "absent" -> PyNone
      [] e = "empty" -> List(<<>>)
      [] OTHER -> List(<<Str(e)>>)

\* the error mapping without the validation's errors
error_result_bare(validation) == Dict(<<Str("error"), PyNone>>)

\* action_node line 118: {"status": "error", "details": validation.get("errors")}
error_result(validation) == Dict(<<Str("error"), ErrorsValue(validation.d.errors)>>)

\* validation.get("valid", False) taken as true whenever the key is there
is_valid_if_present(v) == v.d.valid /= "absent"
is_valid_unless_false(v) == v.d.valid /= "false"

\* action_node line 117: validation.get("valid", False) is truthy
is_valid(v) == v.d.valid \in {"true", "string"}

\* the task and the server process of the request's session
Owner == 1

\* action_node lines 115-121: the validation branch; line 116 maps a missing
\* or falsy validation to {}, and .get raises on any other non-mapping
action_node ==
    /\ pc = "action" /\ tpc[Owner] = "idle" /\ ~acquired
    /\ LET validation ==
               IF state.validation.type \in {"none", "falsy"} THEN DictValue(NoKeys)
               ELSE state.validation
       IN IF validation.type /= "dict"
          THEN /\ Raise /\ UNCHANGED <<state, cvars>>
          ELSE IF ~is_valid(validation)
          THEN /\ state' = error_write(state, error_result(validation))
               /\ Finish("action")
               /\ UNCHANGED cvars
          ELSE /\ Acquire(Owner, TRUE)
               /\ UNCHANGED pvars
    /\ UNCHANGED <<fvars, xvars, svars>>

\* "async with MCPClient() as client" of line 121: connect() step by step; an
\* exception leaves the node
action_connect(step) ==
    /\ pc = "action"
    /\ step
    /\ IF with_done'[Owner] = "aenter_raised" THEN Raise ELSE UNCHANGED <<pc, history>>
    /\ UNCHANGED <<state, fvars, xvars, svars>>

\* line 122: client.call_tool(state.get("intent"), state.get("data")); a name
\* that is None or arguments that are no mapping are refused before sending
action_call ==
    /\ pc = "action" /\ tpc[Owner] = "body" /\ calls[Owner] = 0
    /\ \E sendable \in BOOLEAN :
         /\ sendable => state.intent /= "None" /\ state.data.type /= "truthy"
         /\ state.data.type = "dict" /\ state.intent /= "None" => sendable
         /\ IF sendable
            THEN /\ CallTool(Owner)
                 /\ srv' = [srv EXCEPT ![Owner] =
                        IF tpc'[Owner] = "call"
                        THEN Called(state.intent, state.data.d.args) ELSE @]
            ELSE /\ LeaveBlock(Owner, TRUE)
                 /\ calls' = [calls EXCEPT ![Owner] = @ + 1]
                 /\ UNCHANGED <<_session, _exit_stack, channel, closes, initialized,
                                handshakes, acquired, cleaned, remote_calls,
                                outstanding, srv>>
    /\ UNCHANGED <<pvars, fvars, xvars, calendar, next_id>>

\* the server process of the session runs the requested tool
action_serve(tool_step) ==
    /\ pc = "action" /\ tpc[Owner] = "call"
    /\ tool_step
    /\ UNCHANGED <<pvars, fvars, xvars, cvars>>

\* the awaited call_tool returns the tool's result, or raises
action_return ==
    /\ pc = "action" /\ srv[Owner].pc = "done"
    /\ CallReturn(Owner)
    /\ UNCHANGED <<pvars, fvars, xvars, svars>>

\* what call_tool returns for a tool's result: a CallToolResult object whose
\* content is one TextContent object (type, text) holding the dumped result,
\* and its isError flag
CallToolResult(result) ==
    Attrs(<<List(<<Attrs(<<Str("text"), Str(result.status)>>)>>), Str("isError")>>)

\* line 123: the normalized result is stored and the block is left
action_store ==
    /\ pc = "action" /\ tpc[Owner] = "body" /\ calls[Owner] = 1
    /\ LeaveBlock(Owner, FALSE)
    /\ state' = action_write(state, serialize_tool_result(CallToolResult(srv[Owner].result)))
    /\ UNCHANGED <<pc, history, fvars, xvars, svars, _session, _exit_stack, channel, closes,
                   initialized, handshakes, acquired, cleaned, remote_calls,
                   outstanding, calls>>

\* __aexit__ of line 121 finishes: the node returns, or the exception of the
\* block (or of aclose) leaves the node
action_exit ==
    /\ pc = "action"
    /\ Cleanup(Owner)
    /\ IF with_done[Owner] = "exited_ok" /\ _session' = "None"
       THEN Finish("action") ELSE Raise
    /\ UNCHANGED <<state, fvars, xvars, svars>>

\* feedback_node lines 127-131
feedback_node ==
    /\ pc = "feedback"
    /\ \E answered \in BOOLEAN :
         IF answered
         THEN /\ state' = feedback_write(state, FbText(state.action_result))
              /\ Finish("feedback")
         ELSE /\ Raise /\ UNCHANGED state
    /\ UNCHANGED <<fvars, xvars, svars, cvars>>

\* the calendars a request can meet: empty or holding one timed event
InitialCalendars ==
    {{}} \cup {{[id |-> 1, start |-> TimedField(w[1].local, 0),
                 end |-> TimedField(w[2].local, 0)]} : w \in ProposedWindows}

\* the variables of the other specifications, at rest
NoReply == [outcome |-> "unset", response |-> "unset", error |-> "unset"]
IdleParse == sjl_s = NoText /\ sjl_out = NoneValue /\ sjl_done = TRUE
IdleSerialize == ser_result = PyNone /\ ser_out = PyNone /\ ser_done = TRUE
IdleQuery == qpc = "idle" /\ reply = NoReply
IdleAux == IdleParse /\ IdleSerialize /\ IdleQuery /\ intent_json = NoText

\* -------------------------------------- Spec: one request through the graph
Init ==
    /\ pc = next_node("START")
    /\ state = InitState
    /\ history = <<>>
    /\ InitClientVars
    /\ calendar \in InitialCalendars
    /\ next_id = 2
    /\ srv = [p \in Procs |-> Idle]
    /\ cc_start = Absent /\ cc_end = Absent /\ cc_items = <<>>
    /\ cc_result = NoResult /\ cc_done = TRUE
    /\ IdleAux

Next ==
    \/ intent_node
    \/ data_node
    \/ validation_node
    \/ action_node
    \/ action_connect(ConnectStdio(Owner))
    \/ action_connect(ConnectSession(Owner))
    \/ action_connect(ConnectInitialize(Owner))
    \/ action_call
    \/ action_serve(ListEvents(Owner))
    \/ action_serve(CreateEventProbe(Owner))
    \/ action_serve(CreateEventPost(Owner))
    \/ action_serve(UpdateEventProbe(Owner))
    \/ action_serve(UpdateEventPut(Owner))
    \/ action_serve(DeleteEvent(Owner))
    \/ action_serve(UnknownTool(Owner))
    \/ action_return
    \/ action_store
    \/ action_exit
    \/ feedback_node

Spec == Init /\ [][Next]_vars

\* The same request with every enabled step eventually taken: the event loop
\* resumes a node as soon as the call it awaits has returned or raised, and
\* each awaited call does one or the other.
SpecLive == Spec /\ WF_vars(Next)

\* ------------------------------- SpecClient: tasks sharing one MCPClient
IdlePipeline == pc = "END" /\ state = InitState /\ history = <<>>

InitClient ==
    /\ InitClientVars
    /\ IdlePipeline
    /\ calendar = {} /\ next_id = 1 /\ srv = [p \in Procs |-> Idle]
    /\ cc_start = Absent /\ cc_end = Absent /\ cc_items = <<>>
    /\ cc_result = NoResult /\ cc_done = TRUE
    /\ IdleAux

ClientOnly == UNCHANGED <<fvars, xvars, svars, pvars>>

NextClient ==
    \E t \in Tasks :
        \/ (\E sc \in BOOLEAN : Acquire(t, sc)) /\ ClientOnly
        \/ ConnectStdio(t) /\ ClientOnly
        \/ ConnectSession(t) /\ ClientOnly
        \/ ConnectInitialize(t) /\ ClientOnly
        \/ CallTool(t) /\ ClientOnly
        \/ CallReturn(t) /\ ClientOnly
        \/ BlockEnd(t) /\ ClientOnly
        \/ CleanupCall(t) /\ ClientOnly
        \/ Cleanup(t) /\ ClientOnly

SpecClient == InitClient /\ [][NextClient]_vars

\* ------------------------------------- SpecConflict: check_conflict on inputs
InitConflict ==
    /\ \E w \in CandidateWindows :
          isoparse(w[1]).t <= isoparse(w[2]).t /\ cc_start = w[1] /\ cc_end = w[2]
    /\ cc_items \in ItemLists(MaxItems)
    /\ cc_result = NoResult
    /\ cc_done = FALSE
    /\ calendar = {} /\ next_id = 1 /\ srv = [p \in Procs |-> Idle]
    /\ InitClientVars
    /\ IdlePipeline
    /\ IdleAux

\* conflict, ev = check_conflict(start_iso, end_iso, events)
CheckConflict ==
    /\ ~cc_done
    /\ cc_result' = check_conflict(cc_start, cc_end, cc_items)
    /\ cc_done' = TRUE
    /\ UNCHANGED <<cc_start, cc_end, cc_items>>
    /\ UNCHANGED <<xvars, svars, cvars, pvars>>

NextConflict == CheckConflict

SpecConflict == InitConflict /\ [][NextConflict]_vars

\* --------------------------------- SpecRace: two concurrent create requests
\* the requests come from two time zones, alternating
RaceOffset(p) == IF p % 2 = 1 THEN 0 ELSE MaxOff

InitRace ==
    /\ calendar = {}
    /\ next_id = 1
    /\ srv \in [Procs -> {Called("create_event", CreateArgs(w)) : w \in ProposedWindows}]
    /\ \A p \in Procs : srv[p].args.start_iso.off = RaceOffset(p)
    /\ cc_start = Absent /\ cc_end = Absent /\ cc_items = <<>>
    /\ cc_result = NoResult /\ cc_done = TRUE
    /\ InitClientVars
    /\ IdlePipeline
    /\ IdleAux

NextRace ==
    \E p \in Procs :
        \/ CreateEventProbe(p) /\ UNCHANGED <<fvars, xvars, cvars, pvars>>
        \/ CreateEventPost(p) /\ UNCHANGED <<fvars, xvars, cvars, pvars>>

SpecRace == InitRace /\ [][NextRace]_vars

\* ------------------ SpecServer: one mcp_server process, one call at a time
\* two stored events that do not overlap
Disjoint(a, b) == EndKey(a) <= StartKey(b) \/ EndKey(b) <= StartKey(a)

\* calendars of at most n timed events, ids 1..n, no two overlapping; the
\* stored events carry the offset MaxOff, the requests the offset 0
StoredEvent(n, w) ==
    [id |-> n, start |-> TimedField(w[1].local, MaxOff), end |-> TimedField(w[2].local, MaxOff)]
RECURSIVE Calendars(_)
Calendars(n) ==
    IF n = 0 THEN {{}}
    ELSE LET smaller == Calendars(n - 1)
         IN smaller \cup
            UNION {{c \cup {StoredEvent(n, w)} :
                       w \in {v \in ProposedWindows :
                                 \A ev \in c : Disjoint(ev, StoredEvent(n, v))}} :
                   c \in {x \in smaller : Cardinality(x) = n - 1}}

\* the arguments of the calls the process receives
ServerArgs == {a \in DataArgs : a.start_iso /= Absent => a.start_iso.off = 0}

InitServer ==
    /\ calendar \in Calendars(MaxItems)
    /\ next_id = Cardinality(calendar) + 1
    /\ srv = [p \in Procs |-> Idle]
    /\ cc_start = Absent /\ cc_end = Absent /\ cc_items = <<>>
    /\ cc_result = NoResult /\ cc_done = TRUE
    /\ InitClientVars
    /\ IdlePipeline
    /\ IdleAux

\* mcp.run(transport="stdio"): the process takes the next tools/call request
\* once the previous one is answered
Dispatch(p) ==
    /\ srv[p].pc = "idle"
    /\ \E tool \in ToolNames, a \in ServerArgs :
         /\ tool = "create_event" => next_id <= MaxItems
         /\ srv' = [srv EXCEPT ![p] = Called(tool, a)]
    /\ UNCHANGED <<calendar, next_id>>

\* the tool's return value is sent back and the server waits for the next
\* request
Respond(p) ==
    /\ srv[p].pc = "done"
    /\ srv' = [srv EXCEPT ![p] = Idle]
    /\ UNCHANGED <<calendar, next_id>>

ServerOnly == UNCHANGED <<fvars, xvars, cvars, pvars>>

NextServer ==
    \/ Dispatch(Owner) /\ ServerOnly
    \/ ListEvents(Owner) /\ ServerOnly
    \/ CreateEventProbe(Owner) /\ ServerOnly
    \/ CreateEventPost(Owner) /\ ServerOnly
    \/ UpdateEventProbe(Owner) /\ ServerOnly
    \/ UpdateEventPut(Owner) /\ ServerOnly
    \/ DeleteEvent(Owner) /\ ServerOnly
    \/ Respond(Owner) /\ ServerOnly

SpecServer == InitServer /\ [][NextServer]_vars

\* ------------------------------ SpecParse: _safe_json_loads on bounded texts
InitParse ==
    /\ sjl_s \in Texts(IntentObjs \cup DataObjs \cup ValidationObjs)
    /\ sjl_out = NoneValue
    /\ sjl_done = FALSE
    /\ IdleSerialize /\ IdleQuery /\ intent_json = NoText
    /\ InitClientVars
    /\ IdlePipeline
    /\ calendar = {} /\ next_id = 1 /\ srv = [p \in Procs |-> Idle]
    /\ cc_start = Absent /\ cc_end = Absent /\ cc_items = <<>>
    /\ cc_result = NoResult /\ cc_done = TRUE

\* parsed = _safe_json_loads(s)
SafeJsonLoads ==
    /\ ~sjl_done
    /\ sjl_out' = _safe_json_loads(sjl_s)
    /\ sjl_done' = TRUE
    /\ UNCHANGED <<sjl_s, nvars, qvars, intent_json, fvars, svars, cvars, pvars>>

NextParse == SafeJsonLoads

SpecParse == InitParse /\ [][NextParse]_vars

\* ------------------- SpecSerialize: serialize_tool_result on bounded values
Atoms == {PyNone, Str("p"), Pb, Opaque}
\* values nested at most d deep: an atom; a mapping, list or object of no,
\* one or two values (the second an atom); an object whose to_dict() or text
\* is a value
RECURSIVE Values(_)
Values(d) ==
    IF d = 0 THEN Atoms
    ELSE LET V == Values(d - 1)
         IN V \cup {Dict(<<>>), List(<<>>), Attrs(<<>>)}
              \cup {Dict(<<v>>) : v \in V} \cup {List(<<v>>) : v \in V}
              \cup {Attrs(<<v>>) : v \in V}
              \cup {ToDict(v) : v \in V} \cup {Text(v) : v \in V}
              \cup {Dict(<<v, a>>) : v \in V, a \in Atoms}
              \cup {List(<<v, a>>) : v \in V, a \in Atoms}
              \cup {Attrs(<<v, a>>) : v \in V, a \in Atoms}

InitSerialize ==
    /\ ser_result \in Values(MaxDepth)
    /\ ser_out = PyNone
    /\ ser_done = FALSE
    /\ IdleParse /\ IdleQuery /\ intent_json = NoText
    /\ InitClientVars
    /\ IdlePipeline
    /\ calendar = {} /\ next_id = 1 /\ srv = [p \in Procs |-> Idle]
    /\ cc_start = Absent /\ cc_end = Absent /\ cc_items = <<>>
    /\ cc_result = NoResult /\ cc_done = TRUE

\* out = serialize_tool_result(result)
Serialize ==
    /\ ~ser_done
    /\ ser_out' = serialize_tool_result(ser_result)
    /\ ser_done' = TRUE
    /\ UNCHANGED <<ser_result, jvars, qvars, intent_json, fvars, svars, cvars, pvars>>

NextSerialize == Serialize

SpecSerialize == InitSerialize /\ [][NextSerialize]_vars

\* ----------------- SpecQuery: one call of the endpoint POST /assistant/query
\* what assistant_query hands back: a returned body, or the exception that
\* left it (the handler has no try/except)
Returned(text) == [outcome |-> "returned", response |-> text, error |-> "absent"]
Pending(text) == [outcome |-> "pending", response |-> text, error |-> "absent"]
Escaped == [outcome |-> "raised", response |-> "absent", error |-> "absent"]

\* assistant_query lines 222-224: the awaited run_with_gemini returns its
\* text, which is wrapped as {"response": ..}, or its exception goes through
assistant_query(ok, pending) == IF ok THEN Returned(pending.response) ELSE Escaped

\* line 223 reaching line 154: "async with MCPClient() as client"
q_request ==
    /\ qpc = "idle" /\ reply = NoReply
    /\ Acquire(Owner, TRUE)
    /\ qpc' = "connect"
    /\ UNCHANGED <<reply, fvars, svars, pvars, jvars, nvars, intent_json>>

\* __aenter__ of line 154: connect() step by step; an exception leaves
\* run_with_gemini and the endpoint
q_connect(step) ==
    /\ qpc = "connect"
    /\ step
    /\ IF with_done'[Owner] = "aenter_raised"
       THEN qpc' = "done" /\ reply' = assistant_query(FALSE, reply)
       ELSE /\ qpc' = IF tpc'[Owner] = "body" THEN "list_tools" ELSE qpc
            /\ UNCHANGED reply
    /\ UNCHANGED <<fvars, svars, pvars, jvars, nvars, intent_json>>

\* line 155: tools = await client.list_tools(), the request goes out
q_list_tools ==
    /\ qpc = "list_tools" /\ tpc[Owner] = "body"
    /\ CallTool(Owner)
    /\ qpc' = IF tpc'[Owner] = "call" THEN "list_wait" ELSE "exit"
    /\ UNCHANGED <<reply, fvars, svars, pvars, jvars, nvars, intent_json>>

\* line 155: the tool list arrives, or the wait raises
q_list_return ==
    /\ qpc = "list_wait"
    /\ CallReturn(Owner)
    /\ qpc' = IF tpc'[Owner] = "body" THEN "send_message" ELSE "exit"
    /\ UNCHANGED <<reply, fvars, svars, pvars, jvars, nvars, intent_json>>

\* lines 157-201 and 217: the model is built and asked; it raises, answers in
\* text (returned at line 217) or requests a function call
q_send_message ==
    /\ qpc = "send_message"
    /\ \E outcome \in {"raise", "text", "function_call"} :
         CASE outcome = "raise" ->
                /\ LeaveBlock(Owner, TRUE) /\ qpc' = "exit" /\ UNCHANGED reply
           [] outcome = "text" ->
                /\ LeaveBlock(Owner, FALSE) /\ qpc' = "exit"
                /\ reply' = Pending("response.text")
           [] outcome = "function_call" ->
                /\ qpc' = "call_tool" /\ UNCHANGED <<reply, tpc, scoped, with_done>>
    /\ UNCHANGED <<_session, _exit_stack, channel, closes, initialized, handshakes,
                   acquired, cleaned, remote_calls, outstanding, calls>>
    /\ UNCHANGED <<fvars, svars, pvars, jvars, nvars, intent_json>>

\* lines 202-207: the requested tool is called with the requested arguments
q_call_tool ==
    /\ qpc = "call_tool"
    /\ CallTool(Owner)
    /\ \E tool_name \in IntentNames, args \in DataArgs :
         srv' = [srv EXCEPT ![Owner] =
                    IF tpc'[Owner] = "call" THEN Called(tool_name, args) ELSE @]
    /\ qpc' = IF tpc'[Owner] = "call" THEN "tool_wait" ELSE "exit"
    /\ UNCHANGED <<reply, fvars, calendar, next_id, pvars, jvars, nvars, intent_json>>

\* the server process of the session runs the requested tool
q_serve(tool_step) ==
    /\ qpc = "tool_wait" /\ tpc[Owner] = "call"
    /\ tool_step
    /\ UNCHANGED <<qvars, fvars, cvars, pvars, jvars, nvars, intent_json>>

\* line 207: the awaited call_tool returns the tool's result, or raises
q_tool_return ==
    /\ qpc = "tool_wait" /\ srv[Owner].pc = "done"
    /\ CallReturn(Owner)
    /\ qpc' = IF tpc'[Owner] = "body" THEN "follow_up" ELSE "exit"
    /\ UNCHANGED <<reply, fvars, svars, pvars, jvars, nvars, intent_json>>

\* lines 208-215: the result is serialized, dumped and sent back to the
\* model, whose text is returned; any of the three can raise
q_follow_up ==
    /\ qpc = "follow_up"
    /\ \E ok \in BOOLEAN :
         /\ LeaveBlock(Owner, ~ok)
         /\ reply' = IF ok THEN Pending("follow_up.text") ELSE reply
    /\ qpc' = "exit"
    /\ UNCHANGED <<_session, _exit_stack, channel, closes, initialized, handshakes,
                   acquired, cleaned, remote_calls, outstanding, calls>>
    /\ UNCHANGED <<fvars, svars, pvars, jvars, nvars, intent_json>>

\* __aexit__ of line 154, then line 224: the body {"response": final_answer}
\* is returned, or the exception of the block (or of aclose) leaves the
\* endpoint
q_exit ==
    /\ qpc = "exit"
    /\ Cleanup(Owner)
    /\ reply' = assistant_query(with_done[Owner] = "exited_ok" /\ _session' = "None", reply)
    /\ qpc' = "done"
    /\ UNCHANGED <<fvars, svars, pvars, jvars, nvars, intent_json>>

InitQuery ==
    /\ InitClientVars
    /\ IdlePipeline
    /\ calendar \in InitialCalendars
    /\ next_id = 2
    /\ srv = [p \in Procs |-> Idle]
    /\ cc_start = Absent /\ cc_end = Absent /\ cc_items = <<>>
    /\ cc_result = NoResult /\ cc_done = TRUE
    /\ IdleAux

NextQuery ==
    \/ q_request
    \/ q_connect(ConnectStdio(Owner))
    \/ q_connect(ConnectSession(Owner))
    \/ q_connect(ConnectInitialize(Owner))
    \/ q_list_tools
    \/ q_list_return
    \/ q_send_message
    \/ q_call_tool
    \/ q_serve(ListEvents(Owner))
    \/ q_serve(CreateEventProbe(Owner))
    \/ q_serve(CreateEventPost(Owner))
    \/ q_serve(UpdateEventProbe(Owner))
    \/ q_serve(UpdateEventPut(Owner))
    \/ q_serve(DeleteEvent(Owner))
    \/ q_serve(UnknownTool(Owner))
    \/ q_tool_return
    \/ q_follow_up
    \/ q_exit

SpecQuery == InitQuery /\ [][NextQuery]_vars

\* ------------------------------------------------------------------ claims
\* instants of a timed string, for stating the claims
Instant(x) == x.local - x.off
IsTimed(ev) == ev.start.dateTime /= Absent /\ ev.end.dateTime /= Absent
\* s < e' and s' < e on instants
StrictOverlap(ev) ==
    /\ IsTimed(ev)
    /\ Instant(cc_start) < Instant(ev.end.dateTime)
    /\ Instant(ev.start.dateTime) < Instant(cc_end)
Touching(ev) ==
    /\ IsTimed(ev)
    /\ \/ Instant(cc_end) = Instant(ev.start.dateTime)
       \/ Instant(cc_start) = Instant(ev.end.dateTime)
Items == {cc_items[i] : i \in 1..Len(cc_items)}

\* C2: whenever check_conflict returns a verdict, it reports a conflict iff
\* some existing event [s',e') has s < e' and s' < e; an event that only
\* touches the candidate's boundary is not a conflict.
C2_StrictOverlapIff ==
    (cc_done /\ ~cc_result.raised) =>
        /\ cc_result.conflict <=> (\E ev \in Items : StrictOverlap(ev))
        /\ cc_result.conflict => StrictOverlap(cc_result.ev)
        /\ (\A ev \in Items : Touching(ev) /\ ~StrictOverlap(ev)) => ~cc_result.conflict

\* a candidate that touches an event's boundary, in different offsets, and is
\* reported free
C2_Witness ==
    /\ cc_done /\ ~cc_result.raised /\ ~cc_result.conflict
    /\ Instant(cc_start) < Instant(cc_end)
    /\ \E ev \in Items :
          /\ Touching(ev) /\ ev.start.dateTime.off /= cc_start.off
          /\ Instant(ev.start.dateTime) < Instant(ev.end.dateTime)

\* C3: with several overlapping events check_conflict returns the one that
\* comes first in the list; with none it returns (False, None).
C3_FirstOverlapWins ==
    (cc_done /\ ~cc_result.raised) =>
        IF \E i \in 1..Len(cc_items) : StrictOverlap(cc_items[i])
        THEN /\ cc_result.conflict
             /\ \E i \in 1..Len(cc_items) :
                   /\ cc_result.ev = cc_items[i]
                   /\ StrictOverlap(cc_items[i])
                   /\ \A j \in 1..(i - 1) : ~StrictOverlap(cc_items[j])
        ELSE cc_result = [raised |-> FALSE, conflict |-> FALSE, ev |-> NoEvent]

\* two different overlapping events, the first one reported
C3_Witness ==
    /\ cc_done /\ cc_result.conflict
    /\ Len(cc_items) >= 2
    /\ StrictOverlap(cc_items[1]) /\ StrictOverlap(cc_items[2])
    /\ cc_items[1].start /= cc_items[2].start
    /\ cc_result.ev = cc_items[1]

\* C10: with two concurrent create requests on an initially empty calendar the
\* calendar can end up holding two overlapping events, and it does so only
\* when both probes were fetched before either write landed (each process had
\* passed its conflict check while the calendar was still empty): a process
\* that probes after the other's write is refused.
EventsOverlap(a, b) ==
    /\ a /= b
    /\ Instant(a.start.dateTime) < Instant(b.end.dateTime)
    /\ Instant(b.start.dateTime) < Instant(a.end.dateTime)
InList(ev, l) == \E i \in 1..Len(l) : l[i] = ev
C10_OverlapOnlyByRace ==
    \A p \in Procs, q \in Procs :
        ( /\ p /= q
          /\ srv[p].result.status = "created" /\ srv[p].result.ev \in calendar
          /\ srv[q].result.status = "created" /\ srv[q].result.ev \in calendar
          /\ EventsOverlap(srv[p].result.ev, srv[q].result.ev) )
        => /\ ~InList(srv[q].result.ev, srv[p].events)
           /\ ~InList(srv[p].result.ev, srv[q].events)
           /\ srv[p].events = <<>> /\ srv[q].events = <<>>

\* both requests answered "created" and the calendar holds two overlapping events
C10_Witness ==
    /\ \A p \in Procs : srv[p].pc = "done" /\ srv[p].result.status = "created"
    /\ \E a \in calendar, b \in calendar : EventsOverlap(a, b)

\* C6: when a step fails inside the block of "async with MCPClient()" (after
\* the session was opened), the channel is closed exactly once: it is not left
\* open and it is never closed twice.
C6_ClosedExactlyOnce ==
    /\ closes <= 1
    /\ \A t \in Tasks :
          (with_done[t] = "exited_exc" /\ tpc[t] = "idle")
              => (channel = "closed" /\ closes = 1 /\ _exit_stack = <<>>)

\* a tool call went out, the block raised, and its __aexit__ has finished
C6_Witness ==
    \E t \in Tasks :
        /\ with_done[t] = "exited_exc" /\ tpc[t] = "idle"
        /\ calls[t] >= 1 /\ remote_calls >= 1
        /\ channel = "closed" /\ closes = 1

\* C7 (as claimed): every exit path of a session acquisition releases the
\* channel, the path where connect() raises after the transport was started
\* included.
C7_ReleasedOnEveryExit ==
    \A t \in Tasks :
        (with_done[t] \in {"aenter_raised", "exited_ok", "exited_exc"} /\ tpc[t] = "idle")
            => channel /= "open"

\* C8 (as claimed): a tool request reaches the remote executor only on a
\* session whose handshake has completed and that has not been cleaned up, and
\* a session sees exactly one handshake.
C8_NoCallOutsideReadySession ==
    /\ [](handshakes <= 1)
    /\ [][remote_calls' > remote_calls => (initialized /\ ~cleaned)]_vars

\* C9 (as claimed): at most one call is outstanding on the session, whatever
\* the number of concurrent callers.
RECURSIVE SumOutstanding(_)
SumOutstanding(ts) ==
    IF ts = {} THEN 0
    ELSE LET t == CHOOSE x \in ts : TRUE IN outstanding[t] + SumOutstanding(ts \ {t})
C9_AtMostOneOutstanding == SumOutstanding(Tasks) <= 1

\* the validation mapping as action_node reads it (line 116)
ValidationSaysFalse == state.validation.type = "dict" /\ state.validation.d.valid = "false"
ActionRan == Len(history) >= 4
\* the mapping {"status": "error", "details": ..}
IsErrorResult(r) == r.kind = "dict" /\ Len(r.kids) = 2 /\ r.kids[1] = Str("error")

\* C1: when the validation stored by validation_node has valid == false,
\* action_node opens no tool session and issues no remote tool call, whatever
\* the intent; it stores the error result instead.
C1_NoRemoteCallWhenInvalid ==
    (Len(history) >= 3 /\ ValidationSaysFalse) =>
        /\ ~acquired /\ channel = "none" /\ _session = "None"
        /\ remote_calls = 0 /\ calls[Owner] = 0
        /\ srv[Owner] = Idle
        /\ ActionRan => IsErrorResult(state.action_result)

\* a create request with a usable window whose validation says valid: false
\* has gone through action_node
C1_Witness ==
    /\ ValidationSaysFalse /\ ActionRan /\ pc = "feedback"
    /\ state.intent = "create_event"
    /\ state.data.type = "dict" /\ state.data.d.args.start_iso /= Absent

\* C4: the five nodes run one after the other, each once, in the order
\* intent, data, validation, action, feedback: a node runs only when all its
\* predecessors have finished, and a request that reaches END ran all five.
Order == <<"intent", "data", "validation", "action", "feedback">>
C4_FixedOrder ==
    /\ Len(history) <= Len(Order)
    /\ \A i \in 1..Len(history) : history[i] = Order[i]
    /\ pc \notin {"END", "raised"} => (Len(history) < Len(Order) /\ pc = Order[Len(history) + 1])
    /\ pc = "END" => history = Order
    /\ tpc[Owner] /= "idle" => pc = "action"

\* a request whose validation failed reached END having run all five nodes
C4_Witness ==
    /\ pc = "END" /\ history = Order
    /\ ~acquired /\ IsErrorResult(state.action_result)
    /\ state.message /= NoMessage

\* C5 (as claimed): for create and update intents the validate stage probes
\* the proposed window against the remote events, so an existing event that
\* overlaps the window gives a failed validation and no remote call from
\* action_node.
ProposedOverlapsExisting ==
    /\ state.data.type = "dict"
    /\ state.data.d.args.start_iso /= Absent
    /\ \E ev \in calendar :
          /\ state.intent = "update_event" => ev.id /= state.data.d.args.event_id
          /\ Instant(state.data.d.args.start_iso) < Instant(ev.end.dateTime)
          /\ Instant(ev.start.dateTime) < Instant(state.data.d.args.end_iso)
C5_ValidateProbesConflicts ==
    ( /\ Len(history) >= 3
      /\ state.intent \in {"create_event", "update_event"}
      /\ ProposedOverlapsExisting )
    => /\ remote_calls = 0
       /\ ActionRan => IsErrorResult(state.action_result)

\* C11 (as claimed): no exception leaves the endpoint assistant_query; every
\* internal failure comes back as the envelope {response: null, error: text}.
ErrorEnvelope == [outcome |-> "returned", response |-> "null", error |-> "text"]
C11_NeverRaisesPastBoundary ==
    /\ reply.outcome /= "raised"
    /\ (qpc = "done" /\ reply.response \notin {"response.text", "follow_up.text"})
          => reply = ErrorEnvelope


\* C12 (as claimed): whatever the capability answered, intent_node does not
\* raise, every parse result stored in the state is a mapping, and an answer
\* that is no usable object leaves intent unset.
NotAnObject(text) ==
    text.toks \in {<<"n">>, <<"z">>, <<"x">>, <<"}", "x", "{">>, <<"{", "x", "}">>}
C12_ParsingTotalMapping ==
    /\ (intent_json /= NoText /\ history = <<>>) => pc /= "raised"
    /\ (Len(history) >= 1 /\ NotAnObject(intent_json)) => state.intent = "None"
    /\ Len(history) >= 2 => state.data.type = "dict"

\* the braces of a text, found without find/rfind
BracePositions(toks, c) == {i \in 1..Len(toks) : toks[i] = c}
FirstBrace(toks) == CHOOSE i \in BracePositions(toks, "{") : \A j \in BracePositions(toks, "{") : i <= j
LastBrace(toks) == CHOOSE i \in BracePositions(toks, "}") : \A j \in BracePositions(toks, "}") : i >= j
ThreeStep(text) ==
    LET direct == json_loads(text.toks, text.obj)
    IN IF direct.ok THEN direct.value
       ELSE IF BracePositions(text.toks, "{") /= {} /\ BracePositions(text.toks, "}") /= {}
               /\ json_loads(SubSeq(text.toks, FirstBrace(text.toks), LastBrace(text.toks)),
                             text.obj).ok
       THEN json_loads(SubSeq(text.toks, FirstBrace(text.toks), LastBrace(text.toks)),
                       text.obj).value
       ELSE DictValue(NoKeys)

\* C13: _safe_json_loads returns the direct parse if the whole text parses,
\* else the parse of the part from the first "{" to the last "}" if that
\* parses, else the empty mapping; one object wrapped in prose parses to it.
C13_ThreeStepFallback ==
    sjl_done =>
        /\ sjl_out = ThreeStep(sjl_s)
        /\ sjl_s.toks = <<"x", "{", "m", "}", "x">> => sjl_out = DictValue(sjl_s.obj)

\* an object wrapped in prose, parsed to that object
C13_Witness ==
    /\ sjl_done
    /\ sjl_s.toks = <<"x", "{", "m", "}", "x">>
    /\ sjl_s.obj.intent = "create_event"
    /\ sjl_out = DictValue(sjl_s.obj)

RECURSIVE Plain(_)
Plain(v) ==
    \/ v.kind \in {"none", "prim", "dict"}
    \/ v.kind = "list" /\ \A i \in 1..Len(v.kids) : Plain(v.kids[i])
\* what to_dict() returns and what a text attribute holds is handed back as it
\* is: wherever the function reaches one, it is plain
RECURSIVE HandsBackPlain(_)
HandsBackPlain(v) ==
    CASE v.kind \in {"to_dict", "text"} -> Plain(v.kids[1])
      [] v.kind = "list" -> \A i \in 1..Len(v.kids) : HandsBackPlain(v.kids[i])
      [] OTHER -> TRUE

C15_IntentWrittenOnce ==
    [][Len(history) >= 1 => state'.intent = state.intent]_vars

\* a request that reached END still carries the intent classified first
C15_Witness ==
    /\ pc = "END" /\ history = Order
    /\ state.intent = "update_event"
    /\ state.data.type = "dict" /\ state.validation.type = "dict"

\* C16 (as claimed): the intent field is unset or one of the four intents, and
\* so is the tool name action_node dispatches.
C16_ClosedIntents ==
    /\ state.intent \in ToolNames \cup {"None"}
    /\ srv[Owner].pc /= "idle" => srv[Owner].tool \in ToolNames

\* C17: when validation.valid is false, action_node stores exactly
\* {status: "error", details: the validation's errors} and returns; the
\* feedback node then runs, and the message it writes is derived from that
\* error result.
ErrorResultOf(v) == Dict(<<Str("error"), ErrorsValue(v.d.errors)>>)
C17_ErrorResultThenFeedback ==
    (ValidationSaysFalse /\ pc /= "action" /\ Len(history) >= 3) =>
        /\ ActionRan
        /\ state.action_result = ErrorResultOf(state.validation)
        /\ pc \in {"feedback", "END", "raised"}
        /\ pc = "END" => state.message = FbText(ErrorResultOf(state.validation))

\* a failed validation with an errors list has been reported by feedback_node
C17_Witness ==
    /\ pc = "END" /\ ValidationSaysFalse
    /\ state.validation.d.errors = "some"
    /\ state.action_result.kids[2] = List(<<Str("some")>>)
    /\ state.message.about = state.action_result

\* C18 (as claimed): with a timed candidate carrying an offset, check_conflict
\* returns a verdict whenever every event has a dateTime or a date in its
\* start and its end.
HasDateTimeOrDate(ev) ==
    GetDateTimeOrDate(ev.start) /= Absent /\ GetDateTimeOrDate(ev.end) /= Absent
C18_DateOnlyTolerated ==
    (cc_done /\ \A ev \in Items : HasDateTimeOrDate(ev)) => ~cc_result.raised

\* C19: when validation.valid is true and action_node has returned, it opened
\* one session with one handshake, issued one tool call named by the intent
\* with the extracted data as arguments, stored the normalized result of that
\* call and closed the session; at no time is there a second session or call.
ValidationSaysTrue == state.validation.type = "dict" /\ state.validation.d.valid = "true"
C19_OneSessionOneCall ==
    /\ handshakes <= 1 /\ remote_calls <= 1 /\ calls[Owner] <= 1 /\ closes <= 1
    /\ (ValidationSaysTrue /\ ActionRan) =>
          /\ handshakes = 1 /\ remote_calls = 1 /\ calls[Owner] = 1
          /\ srv[Owner].pc = "done"
          /\ srv[Owner].tool = state.intent
          /\ srv[Owner].args = state.data.d.args
          /\ state.action_result =
                Dict(<<List(<<Dict(<<Str("text"), Str(srv[Owner].result.status)>>)>>),
                       Str("isError")>>)
          /\ channel = "closed" /\ closes = 1
          /\ _session = "None" /\ _exit_stack = <<>> /\ tpc[Owner] = "idle"

\* a create request was executed and feedback_node is about to run
C19_Witness ==
    /\ pc = "feedback" /\ ValidationSaysTrue
    /\ state.intent = "create_event"
    /\ srv[Owner].result.status = "created"
    /\ channel = "closed" /\ remote_calls = 1

\* C20: each node changes only its own field of the state (intent, data,
\* validation, action_result, message in turn), and no node changes messages.
Fields == {"messages", "intent", "data", "validation", "action_result", "message"}
OwnField(node) ==
    CASE node = "intent" -> {"intent"}
      [] node = "data" -> {"data"}
      [] node = "validation" -> {"validation"}
      [] node = "action" -> {"action_result"}
      [] node = "feedback" -> {"message"}
      [] OTHER -> {}
C20_SingleWriterPerField ==
    [][{f \in Fields : state'[f] /= state[f]} \subseteq OwnField(pc)]_vars

\* every node has written its field and messages is as it was handed in
C20_Witness ==
    /\ pc = "END"
    /\ state.intent /= "None" /\ state.data /= NoneValue /\ state.validation /= NoneValue
    /\ state.action_result /= NoActionResult /\ state.message /= NoMessage
    /\ state.messages = InitState.messages

\* C21 (as claimed): update_event given a new start and end that overlap an
\* existing event other than the one being updated sends no PUT and answers
\* "conflict", also when the updated event itself overlaps the new window and
\* is listed first.
OverlapsWindow(ev, a) ==
    /\ Instant(a.start_iso) < Instant(ev.end.dateTime)
    /\ Instant(ev.start.dateTime) < Instant(a.end_iso)
UpdateAnswered ==
    /\ srv[Owner].pc = "done" /\ srv[Owner].tool = "update_event"
    /\ srv[Owner].args.start_iso /= Absent /\ srv[Owner].args.end_iso /= Absent
    /\ srv[Owner].args.event_id /= 0
C21_UpdateRefusedOnOverlap ==
    ( /\ UpdateAnswered
      /\ \E ev \in calendar :
            ev.id /= srv[Owner].args.event_id /\ OverlapsWindow(ev, srv[Owner].args) )
    => /\ srv[Owner].posts = 0
       /\ srv[Owner].result.status \in {"conflict", "error"}

\* C22: with create_event calls run one at a time, every window having start
\* before end, a create_event call never turns a calendar without overlapping
\* events into one with overlapping events, and a call whose window overlaps
\* an existing event sends no POST and answers "conflict" (or the error of a
\* step that raised).
NoOverlaps(cal) == \A a \in cal, b \in cal : ~EventsOverlap(a, b)
CreateAnswered ==
    /\ srv[Owner].pc = "done" /\ srv[Owner].tool = "create_event"
    /\ srv[Owner].args.start_iso /= Absent /\ srv[Owner].args.end_iso /= Absent
C22_SequentialCreatesNeverOverlap ==
    /\ []( ( /\ CreateAnswered
             /\ \E ev \in calendar :
                   ev /= srv[Owner].result.ev /\ OverlapsWindow(ev, srv[Owner].args) )
           => /\ srv[Owner].posts = 0
              /\ srv[Owner].result.status \in {"conflict", "error"} )
    /\ [][(srv[Owner].tool = "create_event" /\ NoOverlaps(calendar))
             => NoOverlaps(calendar')]_vars

\* a second create_event call was refused because of the event the first one
\* had created
C22_Witness ==
    /\ CreateAnswered /\ srv[Owner].result.status = "conflict" /\ srv[Owner].posts = 0
    /\ srv[Owner].result.ev \in calendar
    /\ srv[Owner].result.ev.start.dateTime.off = 0
    /\ NoOverlaps(calendar)

\* C23: action_node fails closed: when the stored validation is missing, is
\* falsy, is an empty mapping (the validator's answer could not be parsed) or
\* is a mapping without a "valid" key, no tool session is opened, no remote
\* call is issued and the error result is stored.
ValidationUnusable ==
    \/ state.validation.type \in {"none", "falsy"}
    \/ state.validation.type = "dict" /\ state.validation.d.valid = "absent"
C23_FailsClosed ==
    (Len(history) >= 3 /\ ValidationUnusable) =>
        /\ ~acquired /\ channel = "none" /\ _session = "None"
        /\ remote_calls = 0 /\ calls[Owner] = 0
        /\ srv[Owner] = Idle
        /\ (pc = "raised" => ActionRan)
        /\ ActionRan => IsErrorResult(state.action_result)

\* a create request with a usable window whose validation came back as the
\* empty mapping has gone through action_node
C23_Witness ==
    /\ state.validation = DictValue(NoKeys) /\ ActionRan /\ pc = "feedback"
    /\ state.intent = "create_event"
    /\ state.data.type = "dict" /\ state.data.d.args.start_iso /= Absent

\* C24 (as claimed): a mutating tool reports success only when the calendar
\* accepted the mutation: create_event answers "created" only if the event was
\* inserted, and delete_event answers "deleted" only if the event is gone.
ToolAnswered(tool, status) ==
    /\ srv[Owner].pc = "done" /\ srv[Owner].tool = tool
    /\ srv[Owner].result.status = status
C24_SuccessOnlyWhenAccepted ==
    /\ ToolAnswered("create_event", "created") => srv[Owner].result.ev \in calendar
    /\ ToolAnswered("delete_event", "deleted") =>
           \A ev \in calendar : ev.id /= srv[Owner].args.event_id

\* C25 (as claimed): every started request eventually reaches END with the
\* feedback message set, unless a capability call or a step of the tool
\* session (open, handshake, tool call, close) failed; both branches of
\* action_node included.
Completed == pc = "END" /\ state.message /= NoMessage
\* intent_node got an answer and raised on it: the answer parsed to something
\* that is no mapping (line 92, parsed.get)
ParseRaised == pc = "raised" /\ history = <<>> /\ intent_json /= NoText
\* action_node raised on a stored validation that is no mapping (line 117)
ValidationRaised ==
    pc = "raised" /\ Len(history) = 3 /\ state.validation.type = "truthy"
StepFailed == pc = "raised" /\ ~ParseRaised /\ ~ValidationRaised
C25_EventuallyFeedback == <>(Completed \/ StepFailed)

====
